---- MODULE Spec2Model ----
(***************************************************************************)
(* State machine of the multi-track sequencer of src/script.js: the        *)
(* timeline model (tracks, events, selection), the playback scopes (full   *)
(* mix and one scope per track) with their handle lists and auto-stop      *)
(* timers, the asynchronous handlers (sample drop, event drag), the        *)
(* sample loader and the WAV encoder of the export.                        *)
(*                                                                         *)
(* Conventions.  Array indices keep the values they have in the source     *)
(* (0-based, -1 = none); At(s, i) reads element i of a sequence.  Times    *)
(* are whole ticks of 1/TicksPerSecond second.  An event object carries an *)
(* identity (the smallest number no live event uses).  A reference to a    *)
(* track object (held by a source node or by a suspended drop handler) is  *)
(* kept as the position the track has in `tracks` now, -1 once the track   *)
(* has left the list: removing a track re-points the references.  A plain  *)
(* index a closure captured (drag, timer) is a number and is never         *)
(* re-pointed.  A number is a whole count of ticks, or one of the two      *)
(* non-finite doubles the handlers can produce, Infinity and NaN, with the *)
(* arithmetic of doubles (Plus, Greater, MathMax).  The pointer is an      *)
(* input: its distance from the left edge of the track element under it,   *)
(* read on the ruler; a drop is taken to happen right of the left column   *)
(* of the viewport (clientX > 0).                                          *)
(***************************************************************************)
EXTENDS Integers, Sequences, FiniteSets, Bags, TLC

VARIABLES
  tracks,             \* let tracks: sequence of track records
  trackPlayStates,    \* let trackPlayStates: sequence of BOOLEAN
  trackAudioSources,  \* let trackAudioSources: sequence of handle sequences
  isPlaying,          \* let isPlaying
  audioSources,       \* let audioSources: handles of the full mix
  selectedTrackIndex, \* let selectedTrackIndex
  bpm,                \* let bpm
  audioCtx,           \* let audioCtx: TRUE once initAudioContext() has made it
  unreferenced,       \* source nodes in flight that no list holds any more
  timers,             \* pending setTimeout callbacks (auto-stop)
  drag,               \* closure state of setupSampleDragging while a drag runs
  pending,            \* drop handlers suspended at `await loadSample(name)`
  last,               \* history: the handler that ran last and its outcome
  rendered,           \* the AudioBuffer handed to audioBufferToWav
  wav                 \* the bytes of the ArrayBuffer audioBufferToWav returned

vars == <<tracks, trackPlayStates, trackAudioSources, isPlaying, audioSources,
          selectedTrackIndex, bpm, audioCtx, unreferenced, timers, drag, pending, last,
          rendered, wav>>

playVars == <<trackPlayStates, trackAudioSources, isPlaying, audioSources,
              unreferenced, timers>>

----------------------------------------------------------------------------
(* Bounds of the model *)

MaxTracks == 2
MaxEvents == 2
MaxPending == 1
MaxTimers == 2
\* events on the timeline while the playback handlers are explored
MaxPlayingEvents == 1
\* source nodes left running with no list holding them
MaxUnreferenced == 1
\* frames and channels of a buffer handed to audioBufferToWav
MaxFrames == 2
MaxChannels == 2

\* instrument names a drop may carry (a subset of the keys of sampleData)
Names == {"kick", "crash"}
\* places of the pointer on a track, as the ticks a finite ruler shows there
PointerTimes == {0, 100}
\* decoded lengths, in ticks, of a recorded clip
RecordedDurations == {12}
\* values the tempo slider is set to
TempoInputs == {90, 200}
\* sample rates of an audio context, in Hz
SampleRates == {8000, 44100, 48000}
\* sample values of a channel, in units of 1 / AmplitudeUnit: inside, on
\* and outside of the range [-1, 1]
AmplitudeUnit == 2
Amplitudes == {-4, -2, 0, 1, 4}

----------------------------------------------------------------------------
(* Program constants *)

TicksPerSecond == 10
MinTimelineSeconds == 10
\* the tempo at which an event sounds at its model time, and the range of bpm
BaseTempo == 120
MinTempo == 60
MaxTempo == 200
TempoStep == 5

\* the doubles Infinity (x / 0 with x > 0) and NaN (0 * Infinity), kept apart
\* from every finite number of ticks the model reaches
Infinity == 1000000
NaN == -1

\* sampleData[name].duration, in ticks
SampleDuration(name) ==
  CASE name = "kick" -> 5
    [] name = "snare" -> 3
    [] name = "hihat" -> 1
    [] name = "crash" -> 20
    [] name = "ride" -> 15
    [] name = "tom" -> 8
    [] name = "bass1" -> 10
    [] name = "bass2" -> 12
    [] name = "subbass" -> 20
    [] name = "synthbass" -> 15
    [] name = "lead" -> 20
    [] name = "pad" -> 40
    [] name = "pluck" -> 5
    [] name = "arp" -> 10
    [] name = "vocal" -> 30
    [] name = "fx" -> 10
    [] OTHER -> 10

----------------------------------------------------------------------------
(* JavaScript array and number helpers *)

Max(a, b) == IF a >= b THEN a ELSE b
Min(a, b) == IF a <= b THEN a ELSE b

IsNaN(a) == a = NaN
IsFinite(a) == a # NaN /\ a # Infinity
\* a + b on doubles
Plus(a, b) ==
  IF IsNaN(a) \/ IsNaN(b) THEN NaN ELSE IF a = Infinity \/ b = Infinity THEN Infinity ELSE a + b
\* a > b on doubles: false when either is NaN
Greater(a, b) == ~IsNaN(a) /\ ~IsNaN(b) /\ a > b
\* a >= b on doubles: false when either is NaN
GreaterEq(a, b) == ~IsNaN(a) /\ ~IsNaN(b) /\ a >= b
\* Math.max(a, b): NaN when either is NaN
MathMax(a, b) == IF IsNaN(a) \/ IsNaN(b) THEN NaN ELSE IF a >= b THEN a ELSE b

\* Math.ceil of a time in ticks, as a whole number of seconds in ticks
CeilSeconds(t) ==
  IF IsFinite(t) THEN ((t + TicksPerSecond - 1) \div TicksPerSecond) * TicksPerSecond ELSE t

\* (relativeX / rect.width) * totalDuration for a pointer over an attached
\* track element; at: what the pointer's place reads on a finite ruler
\* (0 = on the left edge, where the quotient is 0)
ScaleToTimeline(at, totalDuration) ==
  IF totalDuration = Infinity THEN (IF at = 0 THEN NaN ELSE Infinity) ELSE at

RECURSIVE GCD(_, _)
GCD(a, b) == IF b = 0 THEN a ELSE GCD(b, a % b)
\* the number n / d (n >= 0, d > 0), in lowest terms
Ratio(n, d) == [num |-> n \div GCD(n, d), den |-> d \div GCD(n, d)]
\* x / y on such numbers, y not 0
Quotient(x, y) == Ratio(x.num * y.den, x.den * y.num)

Indices(s) == 0 .. (Len(s) - 1)
At(s, i) == s[i + 1]

\* the sequence s without its element at 0-based position k
RemoveAt(s, k) == SubSeq(s, 1, k) \o SubSeq(s, k + 2, Len(s))

\* Array.prototype.splice(index, 1): a negative index counts from the end,
\* an index past the end removes nothing
Splice1(s, index) ==
  LET start == IF index < 0 THEN Max(Len(s) + index, 0) ELSE Min(index, Len(s))
  IN IF start < Len(s) THEN RemoveAt(s, start) ELSE s

\* a[i] = v on an array: an index past the end grows the array (the holes
\* read as undefined, which every reader here tests as falsy: hole); a
\* negative index sets a property and leaves the elements alone
SetAt(s, i, v, hole) ==
  IF i < 0 THEN s
  ELSE IF i < Len(s) THEN [s EXCEPT ![i + 1] = v]
  ELSE LET grown == [j \in 1 .. (i + 1) |-> IF j <= Len(s) THEN s[j] ELSE IF j = i + 1 THEN v ELSE hole]
       IN SubSeq(grown, 1, i + 1)

\* the smallest number not in used: the identity of a newly created event
Fresh(used) == CHOOSE n \in 0 .. Cardinality(used) : n \notin used /\ \A m \in 0 .. (n - 1) : m \in used

Range(s) == {s[j] : j \in 1 .. Len(s)}

----------------------------------------------------------------------------
(* Derived quantities of the timeline *)

RECURSIVE MaxEventEnd(_, _)
\* events.forEach(event => { eventEnd = time + duration; if (eventEnd > maxDuration) maxDuration = eventEnd })
MaxEventEnd(events, maxDuration) ==
  IF events = <<>> THEN maxDuration
  ELSE LET eventEnd == Plus(Head(events).time, Head(events).duration)
       IN MaxEventEnd(Tail(events), IF Greater(eventEnd, maxDuration) THEN eventEnd ELSE maxDuration)

RECURSIVE MaxTrackEnd(_, _)
\* tracks.forEach(track => track.events.forEach(...))
MaxTrackEnd(ts, maxDuration) ==
  IF ts = <<>> THEN maxDuration
  ELSE MaxTrackEnd(Tail(ts), MaxEventEnd(Head(ts).events, maxDuration))

\* getTotalDuration() as if it returned Math.max(10, maxDuration), not rounded
TotalDurationUnrounded(ts) == MathMax(MinTimelineSeconds * TicksPerSecond, MaxTrackEnd(ts, 0))

\* getTotalDuration(): Math.max(10, Math.ceil(maxDuration)), in ticks
TotalDurationOf(ts) == MathMax(MinTimelineSeconds * TicksPerSecond, CeilSeconds(MaxTrackEnd(ts, 0)))
GetTotalDuration == TotalDurationOf(tracks)

----------------------------------------------------------------------------
(* The program state as one value, so that a handler that calls another     *)
(* handler is the composition of their effects.                             *)

State ==
  [tracks |-> tracks, trackPlayStates |-> trackPlayStates,
   trackAudioSources |-> trackAudioSources, isPlaying |-> isPlaying,
   audioSources |-> audioSources, selectedTrackIndex |-> selectedTrackIndex,
   bpm |-> bpm, audioCtx |-> audioCtx,
   unreferenced |-> unreferenced, timers |-> timers, pending |-> pending]

Commit(s) ==
  /\ tracks' = s.tracks
  /\ trackPlayStates' = s.trackPlayStates
  /\ trackAudioSources' = s.trackAudioSources
  /\ isPlaying' = s.isPlaying
  /\ audioSources' = s.audioSources
  /\ selectedTrackIndex' = s.selectedTrackIndex
  /\ bpm' = s.bpm
  /\ audioCtx' = s.audioCtx
  /\ unreferenced' = s.unreferenced
  /\ timers' = s.timers
  /\ pending' = s.pending

\* what the history variable records of a handler run: the handler, its
\* arguments (for deleteTrack: the index and the selection before), and
\* whether it went through (ok) or returned early
Ran(op, a, b, ok) == [op |-> op, a |-> a, b |-> b, ok |-> ok, load |-> "none"]

\* what it records of a timer callback: the index the callback captured (a),
\* the run the timer ends (b) and whether the callback stopped something (ok)
Fired(op, timer, ok) == Ran(op, timer.index, timer.run, ok)

EventsOf(ts) == UNION {Range(ts[j].events) : j \in 1 .. Len(ts)}
RECURSIVE CountEvents(_)
CountEvents(ts) == IF ts = <<>> THEN 0 ELSE Len(Head(ts).events) + CountEvents(Tail(ts))
UsedEventIds(s) == {e.id : e \in EventsOf(s.tracks)}
\* the AudioBuffer objects the events of the timeline hold
UsedBuffers(s) == {e.buffer : e \in EventsOf(s.tracks)}

RECURSIVE Flatten(_)
Flatten(lists) == IF lists = <<>> THEN <<>> ELSE Head(lists) \o Flatten(Tail(lists))

\* every source node in flight: a node is stopped when its list is emptied
\* by stopTrack / stopAll, and is in flight until then
InFlight(s) == s.audioSources \o Flatten(s.trackAudioSources) \o s.unreferenced

\* a[i] read where undefined counts as falsy
Truthy(flags, i) == i \in Indices(flags) /\ At(flags, i)

\* a reference to the track at position ref, after the track at position
\* removed has left the list
Repoint(ref, removed) ==
  IF ref = removed THEN -1 ELSE IF ref > removed /\ removed >= 0 THEN ref - 1 ELSE ref
RepointAll(refs, removed) ==
  LET moved == [j \in 1 .. Len(refs) |-> [refs[j] EXCEPT !.tr = Repoint(@, removed)]]
  IN SubSeq(moved, 1, Len(refs))

\* the pending timers after the track at position removed has left the
\* list: the run of a track is re-pointed like every reference to the track
\* (the index the callback captured stays as it was)
RepointTimers(armed, removed) ==
  BagOfAll(LAMBDA timer : IF timer.scope = "track"
                          THEN [timer EXCEPT !.run = Repoint(@, removed)] ELSE timer, armed)

\* the pending timers after the track list is replaced
UnlinkedTimers(armed) ==
  BagOfAll(LAMBDA timer : IF timer.scope = "track" THEN [timer EXCEPT !.run = -1] ELSE timer, armed)

\* the pending timers after a run of a scope is over, by a stop or by a
\* later start request: the callbacks stay armed (no clearTimeout), the run
\* they were to end is no more
EndRun(armed, scope, run) ==
  BagOfAll(LAMBDA timer : IF timer.scope = scope /\ timer.run = run
                          THEN [timer EXCEPT !.run = -1] ELSE timer, armed)

\* renderTracks(): the track elements are built anew, so the element a
\* suspended drop handler holds leaves the document.  (With an infinite
\* total the ruler update that ends it does not return normally; the state
\* is written before.)
RenderTracks(s) ==
  [s EXCEPT !.pending = SubSeq([j \in 1 .. Len(@) |-> [@[j] EXCEPT !.detached = TRUE]], 1, Len(@))]

\* const track = { events: [], volume: 0.8, loop: false, muted: false, solo: false }
NewTrack == [events |-> <<>>, loop |-> FALSE, muted |-> FALSE]

\* createTrack()
CreateTrack(s) ==
  RenderTracks([s EXCEPT !.tracks = Append(@, NewTrack),
                         !.trackPlayStates = Append(@, FALSE),
                         !.trackAudioSources = Append(@, <<>>)])

\* try { source.stop() } catch (e) { }: how the statement ends, whether
\* source.stop() threw (as it may on a node whose playback has ended) or not
TryStop(threw) == IF threw THEN "caught" ELSE "stopped"

\* stopTrack(trackIndex) as if it flipped trackPlayStates[trackIndex]
StopTrackFlips(s, trackIndex) ==
  [s EXCEPT !.trackAudioSources = IF trackIndex \in Indices(@) THEN SetAt(@, trackIndex, <<>>, <<>>) ELSE @,
            !.trackPlayStates = SetAt(@, trackIndex, ~Truthy(@, trackIndex), FALSE),
            !.timers = EndRun(@, "track", trackIndex)]

\* stopTrack(trackIndex)
StopTrack(s, trackIndex) ==
  [s EXCEPT !.trackAudioSources = IF trackIndex \in Indices(@) THEN SetAt(@, trackIndex, <<>>, <<>>) ELSE @,
            !.trackPlayStates = SetAt(@, trackIndex, FALSE, FALSE),
            !.timers = EndRun(@, "track", trackIndex)]

\* the position splice(index, 1) removes from an array of length n, -1 if none
SplicedAt(n, index) ==
  LET start == IF index < 0 THEN Max(n + index, 0) ELSE Min(index, n)
  IN IF start < n THEN start ELSE -1

\* the body of deleteTrack(index) under `if (tracks.length > 1)`
RemoveTrack(s, index) ==
  LET s1 == IF Truthy(s.trackPlayStates, index) THEN StopTrack(s, index) ELSE s
      ts == Splice1(s1.tracks, index)
      gone == SplicedAt(Len(s1.tracks), index)
      dropped == IF SplicedAt(Len(s1.trackAudioSources), index) >= 0
                 THEN At(s1.trackAudioSources, SplicedAt(Len(s1.trackAudioSources), index))
                 ELSE <<>>
      lists == Splice1(s1.trackAudioSources, index)
  IN RenderTracks(
       [s1 EXCEPT !.tracks = ts,
                  !.trackPlayStates = Splice1(@, index),
                  !.trackAudioSources = SubSeq([j \in 1 .. Len(lists) |-> RepointAll(lists[j], gone)], 1, Len(lists)),
                  !.selectedTrackIndex = IF @ >= Len(ts) THEN Len(ts) - 1 ELSE @,
                  !.audioSources = RepointAll(@, gone),
                  !.unreferenced = RepointAll(@ \o dropped, gone),
                  !.timers = RepointTimers(@, gone),
                  !.pending = RepointAll(@, gone)])

\* deleteTrack(index) as if it removed the last track too
DeleteTrackUnguarded(s, index) == RemoveTrack(s, index)

\* deleteTrack(index) as if it left selectedTrackIndex alone
DeleteTrackNoClamp(s, index) ==
  IF Len(s.tracks) > 1
  THEN [RemoveTrack(s, index) EXCEPT !.selectedTrackIndex = s.selectedTrackIndex]
  ELSE s

\* deleteTrack(index) as if it stopped the track after the removed one too
DeleteTrackStopsNext(s, index) ==
  IF Len(s.tracks) > 1
  THEN RemoveTrack(IF Truthy(s.trackPlayStates, index + 1) THEN StopTrack(s, index + 1) ELSE s, index)
  ELSE s

\* deleteTrack(index)
DeleteTrack(s, index) ==
  IF Len(s.tracks) > 1 THEN RemoveTrack(s, index) ELSE s

\* deleteSampleEvent(trackIndex, eventIndex)
DeleteSampleEvent(s, trackIndex, eventIndex) ==
  RenderTracks([s EXCEPT !.tracks[trackIndex + 1].events = Splice1(@, eventIndex)])

RECURSIVE StopTracks(_, _)
\* tracks.forEach((track, index) => { if (trackPlayStates[index]) stopTrack(index) }), from index on
StopTracks(s, index) ==
  IF index >= Len(s.tracks) THEN s
  ELSE StopTracks(IF Truthy(s.trackPlayStates, index) THEN StopTrack(s, index) ELSE s, index + 1)

\* stopAll() as if it stopped the full mix only
StopAllMixOnly(s) ==
  [s EXCEPT !.audioSources = <<>>, !.isPlaying = FALSE, !.timers = EndRun(@, "mix", 0)]

\* stopAll()
StopAll(s) ==
  StopTracks([s EXCEPT !.audioSources = <<>>, !.isPlaying = FALSE, !.timers = EndRun(@, "mix", 0)], 0)

\* every reference to a track of the list, after the list is replaced
Unlinked(refs) == SubSeq([j \in 1 .. Len(refs) |-> [refs[j] EXCEPT !.tr = -1]], 1, Len(refs))

\* clearAll() up to `trackAudioSources = []`
EmptyLists(s) ==
  LET s1 == StopAll(s)
  IN [s1 EXCEPT !.tracks = <<>>, !.trackPlayStates = <<>>, !.trackAudioSources = <<>>,
                !.audioSources = Unlinked(@),
                !.unreferenced = Unlinked(@ \o Flatten(s1.trackAudioSources)),
                !.timers = UnlinkedTimers(@),
                !.pending = Unlinked(@)]

\* clearAll() as if it did not call createTrack()
ClearAllNoTrack(s) == [RenderTracks(EmptyLists(s)) EXCEPT !.selectedTrackIndex = 0]

\* clearAll(), the confirm() answered yes
ClearAll(s) == [CreateTrack(EmptyLists(s)) EXCEPT !.selectedTrackIndex = 0]

----------------------------------------------------------------------------
(* Playback *)

\* a pending setTimeout callback: the kind of scope that armed it, the
\* trackIndex its closure captured, and the run it is to end: the scope whose
\* start request armed it (0 for the full mix, for a track the position the
\* track has now), -1 once that run is over: the scope was stopped, started
\* again or has left the list
MixTimer == [scope |-> "mix", index |-> -1, run |-> 0]
TrackTimer(trackIndex) == [scope |-> "track", index |-> trackIndex, run |-> trackIndex]

\* const tempoMultiplier = bpm / 120
TempoMultiplier(tempo) == Ratio(tempo, BaseTempo)

\* event.time / tempoMultiplier: what source.start() is given beyond
\* audioCtx.currentTime, in ticks
StartOffset(time, tempoMultiplier) == Quotient(Ratio(time, 1), tempoMultiplier)

\* the source node started for an event: the track it plays (tr), its start
\* time beyond audioCtx.currentTime (when) and source.playbackRate.value (rate)
Source(trackIndex, event, tempo) ==
  [tr |-> trackIndex, when |-> StartOffset(event.time, TempoMultiplier(tempo)),
   rate |-> TempoMultiplier(tempo)]

\* the source nodes started for events of the track at trackIndex, in order
Sources(trackIndex, events, tempo) ==
  SubSeq([k \in 1 .. Len(events) |-> Source(trackIndex, events[k], tempo)], 1, Len(events))

\* source.start(startTime) throws a TypeError on a start time that is not finite
StartThrows(event) == ~IsFinite(event.time)

RECURSIVE StartedBeforeThrow(_)
\* the events source.start() accepted before the first it threw on
StartedBeforeThrow(events) ==
  IF events = <<>> \/ StartThrows(Head(events)) THEN 0 ELSE 1 + StartedBeforeThrow(Tail(events))

\* the events source.start() accepted, each throw caught (try / catch per event)
StartedCaught(events) == SelectSeq(events, LAMBDA event : ~StartThrows(event))

\* the sources playTrack pushes for the track at trackIndex
TrackSources(ts, trackIndex, tempo) ==
  Sources(trackIndex, StartedCaught(At(ts, trackIndex).events), tempo)

\* playAll() leaves its loops by an exception of source.start()
MixThrows(ts) == \E j \in 1 .. Len(ts) : ~ts[j].muted /\ \E k \in 1 .. Len(ts[j].events) : StartThrows(ts[j].events[k])

RECURSIVE MixSources(_, _, _)
\* tracks.forEach((track, trackIndex) => { if (track.muted) return; track.events.forEach(...) }), from trackIndex on
MixSources(ts, trackIndex, tempo) ==
  IF trackIndex >= Len(ts) THEN <<>>
  ELSE LET track == At(ts, trackIndex)
           started == SubSeq(track.events, 1, StartedBeforeThrow(track.events))
       IN IF track.muted THEN MixSources(ts, trackIndex + 1, tempo)
          ELSE IF StartedBeforeThrow(track.events) < Len(track.events)
               THEN Sources(trackIndex, started, tempo)
               ELSE Sources(trackIndex, started, tempo) \o MixSources(ts, trackIndex + 1, tempo)

\* the source node downloadSong starts in the offline context for an event:
\* source.start(event.time), the playback rate left at 1
OfflineSource(trackIndex, event) ==
  [tr |-> trackIndex, when |-> Ratio(event.time, 1), rate |-> Ratio(1, 1)]

RECURSIVE OfflineSourcesWithMuted(_, _)
\* the forEach of downloadSong as if it did not skip muted tracks
OfflineSourcesWithMuted(ts, trackIndex) ==
  IF trackIndex >= Len(ts) THEN <<>>
  ELSE LET track == At(ts, trackIndex)
           started == SubSeq(track.events, 1, StartedBeforeThrow(track.events))
           sources == SubSeq([k \in 1 .. Len(started) |-> OfflineSource(trackIndex, started[k])], 1, Len(started))
       IN IF Len(started) < Len(track.events) THEN sources
          ELSE sources \o OfflineSourcesWithMuted(ts, trackIndex + 1)

RECURSIVE OfflineSources(_, _)
\* tracks.forEach(track => { if (track.muted) return; track.events.forEach(...) }) of downloadSong, from trackIndex on
OfflineSources(ts, trackIndex) ==
  IF trackIndex >= Len(ts) THEN <<>>
  ELSE LET track == At(ts, trackIndex)
           started == SubSeq(track.events, 1, StartedBeforeThrow(track.events))
           sources == SubSeq([k \in 1 .. Len(started) |-> OfflineSource(trackIndex, started[k])], 1, Len(started))
       IN IF track.muted THEN OfflineSources(ts, trackIndex + 1)
          ELSE IF Len(started) < Len(track.events) THEN sources
               ELSE sources \o OfflineSources(ts, trackIndex + 1)

\* downloadSong(): the source nodes it starts in the offline context (none
\* without an audioCtx); it writes no variable of the program
DownloadSong(s) == IF ~s.audioCtx THEN <<>> ELSE OfflineSources(s.tracks, 0)

\* downloadSong() as if it made the audio context it misses, as playAll does
DownloadedWithContext(s) == [s EXCEPT !.audioCtx = TRUE]

\* the program state downloadSong() leaves: offlineCtx, the gain and source
\* nodes, the rendered buffer, wav, blob, url and link are locals of the
\* handler and of its then-callback, and no statement of either assigns to
\* a variable of the program or to a field of a track or of an event
Downloaded(s) == s

AnyLoop(ts) == \E j \in 1 .. Len(ts) : ts[j].loop

\* playAll() as if it stopped the track scopes before it starts the full mix
PlayAllExclusive(s) ==
  IF s.isPlaying THEN s
  ELSE LET s1 == StopTracks(s, 0)
       IN [s1 EXCEPT !.audioCtx = TRUE,
                     !.isPlaying = TRUE,
                     !.unreferenced = @ \o s1.audioSources,
                     !.audioSources = MixSources(s1.tracks, 0, s1.bpm),
                     !.timers = IF MixThrows(s1.tracks) THEN EndRun(@, "mix", 0)
                                ELSE EndRun(@, "mix", 0) (+) SetToBag({MixTimer})]

\* playAll()
PlayAll(s) ==
  IF s.isPlaying THEN s
  ELSE [s EXCEPT !.audioCtx = TRUE,
                 !.isPlaying = TRUE,
                 !.unreferenced = @ \o s.audioSources,
                 !.audioSources = MixSources(s.tracks, 0, s.bpm),
                 !.timers = IF MixThrows(s.tracks) THEN EndRun(@, "mix", 0)
                            ELSE EndRun(@, "mix", 0) (+) SetToBag({MixTimer})]

\* playTrack(trackIndex) from `trackPlayStates[trackIndex] = true` on
StartTrack(s, trackIndex) ==
  LET track == At(s.tracks, trackIndex)
      old == IF trackIndex \in Indices(s.trackAudioSources)
             THEN At(s.trackAudioSources, trackIndex) ELSE <<>>
  IN [s EXCEPT !.audioCtx = TRUE,
               !.trackPlayStates = SetAt(@, trackIndex, TRUE, FALSE),
               !.unreferenced = @ \o old,
               !.trackAudioSources = SetAt(@, trackIndex, TrackSources(s.tracks, trackIndex, s.bpm), <<>>),
               !.timers = IF track.loop THEN EndRun(@, "track", trackIndex)
                          ELSE EndRun(@, "track", trackIndex) (+) SetToBag({TrackTimer(trackIndex)})]

\* playTrack(trackIndex) as if it did not test track.events.length === 0
PlayTrackNoEmptyCheck(s, trackIndex) ==
  IF Truthy(s.trackPlayStates, trackIndex) THEN StopTrack(s, trackIndex)
  ELSE IF trackIndex \notin Indices(s.tracks) THEN s
  ELSE IF At(s.tracks, trackIndex).muted THEN s
  ELSE StartTrack(s, trackIndex)

\* playTrack(trackIndex)
PlayTrack(s, trackIndex) ==
  IF Truthy(s.trackPlayStates, trackIndex) THEN StopTrack(s, trackIndex)
  ELSE IF trackIndex \notin Indices(s.tracks) THEN s
  ELSE IF At(s.tracks, trackIndex).muted THEN s
  ELSE IF Len(At(s.tracks, trackIndex).events) = 0 THEN s
  ELSE StartTrack(s, trackIndex)

\* the setTimeout callback of playAll as if it tested isPlaying only
MixTimerFiredNoLoopTest(s) ==
  IF s.isPlaying THEN StopAll(s) ELSE s

\* the setTimeout callback of playAll
MixTimerFired(s) ==
  IF s.isPlaying /\ ~AnyLoop(s.tracks) THEN StopAll(s) ELSE s

\* the setTimeout callback of playTrack(trackIndex) as if it called
\* stopTrack without testing trackPlayStates[trackIndex]
TrackTimerFiredUnguarded(s, trackIndex) == StopTrack(s, trackIndex)

\* the setTimeout callback of playTrack(trackIndex) as if it reset the
\* flag itself instead of calling stopTrack
TrackTimerFiredFlagOnly(s, trackIndex) ==
  IF Truthy(s.trackPlayStates, trackIndex)
  THEN [s EXCEPT !.trackPlayStates = SetAt(@, trackIndex, FALSE, FALSE),
                 !.timers = EndRun(@, "track", trackIndex)]
  ELSE s

\* the setTimeout callback of playTrack(trackIndex)
TrackTimerFired(s, trackIndex) ==
  IF Truthy(s.trackPlayStates, trackIndex) THEN StopTrack(s, trackIndex) ELSE s

\* updatePlaybackPosition(); atEnd: adjustedElapsed >= totalDuration
UpdatePlaybackPosition(s, atEnd) ==
  IF ~s.isPlaying THEN s
  ELSE IF atEnd /\ ~AnyLoop(s.tracks) THEN StopAll(s) ELSE s

----------------------------------------------------------------------------
(* The WAV encoder *)

\* the AudioBuffer objects a caller may hand to audioBufferToWav:
\* channelData[c][i] is buffer.getChannelData(c - 1)[i - 1]
Buffers ==
  UNION {[length : {length}, numberOfChannels : {numberOfChannels}, sampleRate : SampleRates,
          channelData : [1 .. numberOfChannels -> [1 .. length -> Amplitudes]]] :
         length \in 0 .. MaxFrames, numberOfChannels \in 1 .. MaxChannels}

\* before audioBufferToWav has been given a buffer
NoBuffer == [length |-> 0, numberOfChannels |-> 0, sampleRate |-> 0, channelData |-> <<>>]

\* new OfflineAudioContext(2, audioCtx.sampleRate * 10, audioCtx.sampleRate):
\* the channels and the frames of the buffer startRendering() resolves with
RenderedChannels == 2
RenderedSeconds == 10
RenderedLength(sampleRate) == sampleRate * RenderedSeconds

\* the width lowest bytes of a number that is not negative, lowest byte
\* first (littleEndian = true): the number modulo 2^(8 * width)
LittleEndian(value, width) ==
  SubSeq([k \in 1 .. width |-> (value \div (256 ^ (k - 1))) % 256], 1, width)

\* the unsigned number a little-endian byte sequence stands for
RECURSIVE Unsigned(_)
Unsigned(bytes) == IF bytes = <<>> THEN 0 ELSE Head(bytes) + 256 * Unsigned(Tail(bytes))

\* new ArrayBuffer(byteLength): byteLength zero bytes
ArrayBuffer(byteLength) == SubSeq([k \in 1 .. byteLength |-> 0], 1, byteLength)

\* the bytes of view after bytes are stored from byte offset on
Stored(view, offset, bytes) ==
  SubSeq([k \in 1 .. Len(view) |->
            IF k > offset /\ k <= offset + Len(bytes) THEN bytes[k - offset] ELSE view[k]],
         1, Len(view))

\* string.charCodeAt(i) of the four tags of the header
RIFF == <<82, 73, 70, 70>>
WAVE == <<87, 65, 86, 69>>
FMT == <<102, 109, 116, 32>>
DATA == <<100, 97, 116, 97>>

\* writeString(offset, string)
WriteString(view, offset, string) == Stored(view, offset, string)
\* view.setUint32(offset, value, true), view.setUint16(offset, value, true)
SetUint32(view, offset, value) == Stored(view, offset, LittleEndian(value, 4))
SetUint16(view, offset, value) == Stored(view, offset, LittleEndian(value, 2))

\* the whole number a double n / d is truncated to (ToIntegerOrInfinity)
Truncated(n, d) == IF n >= 0 THEN n \div d ELSE 0 - ((0 - n) \div d)

\* view.setInt16(offset, value, true) of the double n / d: truncated, then
\* taken modulo 2^16 (two's complement)
SetInt16(view, offset, n, d) == Stored(view, offset, LittleEndian(Truncated(n, d) % (2 ^ 16), 2))

\* Math.max(-1, Math.min(1, sample)), in units of 1 / AmplitudeUnit
Clamped(sample) == Max(0 - AmplitudeUnit, Min(AmplitudeUnit, sample))

\* sample < 0 ? sample * 0x8000 : sample * 0x7FFF, the numerator over AmplitudeUnit
Scaled(sample) == IF sample < 0 THEN sample * 32768 ELSE sample * 32767

\* const bitsPerSample = 16 and the sizes audioBufferToWav derives from it
BitsPerSample == 16
BytesPerSample == BitsPerSample \div 8
BlockAlign(numberOfChannels) == numberOfChannels * BytesPerSample
ByteRate(sampleRate, numberOfChannels) == sampleRate * BlockAlign(numberOfChannels)
DataSize(length, numberOfChannels) == length * BlockAlign(numberOfChannels)
ChunkSize(length, numberOfChannels) == 36 + DataSize(length, numberOfChannels)
HeaderSize == 44

\* the header as if chunkSize counted the whole file
WavHeaderCountsWholeFile(view, length, numberOfChannels, sampleRate) ==
  LET v1 == WriteString(view, 0, RIFF)
      v2 == SetUint32(v1, 4, HeaderSize + DataSize(length, numberOfChannels))
      v3 == WriteString(v2, 8, WAVE)
      v4 == WriteString(v3, 12, FMT)
      v5 == SetUint32(v4, 16, 16)
      v6 == SetUint16(v5, 20, 1)
      v7 == SetUint16(v6, 22, numberOfChannels)
      v8 == SetUint32(v7, 24, sampleRate)
      v9 == SetUint32(v8, 28, ByteRate(sampleRate, numberOfChannels))
      v10 == SetUint16(v9, 32, BlockAlign(numberOfChannels))
      v11 == SetUint16(v10, 34, BitsPerSample)
      v12 == WriteString(v11, 36, DATA)
  IN SetUint32(v12, 40, DataSize(length, numberOfChannels))

\* the writes of the header, in the order of the source
WavHeader(view, length, numberOfChannels, sampleRate) ==
  LET v1 == WriteString(view, 0, RIFF)
      v2 == SetUint32(v1, 4, ChunkSize(length, numberOfChannels))
      v3 == WriteString(v2, 8, WAVE)
      v4 == WriteString(v3, 12, FMT)
      v5 == SetUint32(v4, 16, 16)
      v6 == SetUint16(v5, 20, 1)
      v7 == SetUint16(v6, 22, numberOfChannels)
      v8 == SetUint32(v7, 24, sampleRate)
      v9 == SetUint32(v8, 28, ByteRate(sampleRate, numberOfChannels))
      v10 == SetUint16(v9, 32, BlockAlign(numberOfChannels))
      v11 == SetUint16(v10, 34, BitsPerSample)
      v12 == WriteString(v11, 36, DATA)
  IN SetUint32(v12, 40, DataSize(length, numberOfChannels))

RECURSIVE WavSamples(_, _, _, _)
\* the two loops over i and channel, from frame i and channel on: offset is
\* 44 + 2 * (i * numberOfChannels + channel)
WavSamples(view, buffer, i, channel) ==
  IF i >= buffer.length THEN view
  ELSE IF channel >= buffer.numberOfChannels THEN WavSamples(view, buffer, i + 1, 0)
  ELSE LET sample == Clamped(buffer.channelData[channel + 1][i + 1])
           offset == HeaderSize + 2 * (i * buffer.numberOfChannels + channel)
       IN WavSamples(SetInt16(view, offset, Scaled(sample), AmplitudeUnit), buffer, i, channel + 1)

\* audioBufferToWav(buffer): the bytes of the ArrayBuffer it returns
AudioBufferToWav(buffer) ==
  LET arrayBuffer == ArrayBuffer(HeaderSize + DataSize(buffer.length, buffer.numberOfChannels))
      header == WavHeader(arrayBuffer, buffer.length, buffer.numberOfChannels, buffer.sampleRate)
  IN WavSamples(header, buffer, 0, 0)

----------------------------------------------------------------------------
(* Samples *)

\* how the external load of samples/${name}.wav goes: fetch throws, the
\* response is not ok, the bytes of an ok response do not decode, or they do
LoadOutcomes == {"fetchThrows", "notOk", "decodeFails", "decoded"}
LoadFailures == LoadOutcomes \ {"decoded"}

\* createSyntheticBuffer(name): audioCtx.createBuffer makes a new buffer
CreateSyntheticBuffer(s, name) ==
  [state |-> "fulfilled", origin |-> "synthetic", name |-> name, buffer |-> Fresh(UsedBuffers(s))]

\* audioCtx.decodeAudioData(arrayBuffer): the promise it returns, fulfilled
\* with a new buffer or rejected
DecodeAudioData(s, name, decodes) ==
  IF decodes
  THEN [state |-> "fulfilled", origin |-> "decoded", name |-> name, buffer |-> Fresh(UsedBuffers(s))]
  ELSE [state |-> "rejected", origin |-> "none", name |-> name, buffer |-> -1]

\* loadSample(name): how the promise it returns is settled.  An exception
\* of the awaited fetch is caught; the promise of decodeAudioData is
\* returned without await, so the try block is left before it settles and
\* the promise of loadSample follows it
LoadSample(s, name, outcome) ==
  IF outcome = "fetchThrows" THEN CreateSyntheticBuffer(s, name)
  ELSE IF outcome # "notOk" THEN DecodeAudioData(s, name, outcome = "decoded")
  ELSE CreateSyntheticBuffer(s, name)

----------------------------------------------------------------------------
(* Placing and moving events *)

NoDrag == [isDragging |-> FALSE, trackIndex |-> -1, eventIndex |-> -1]

\* the push as if the handler took the track out of `tracks` when it
\* resumes, the first track in place of one that has left the list
PushEventOnListedTrack(s, ref, buffer, name, time, duration) ==
  LET event == [id |-> Fresh(UsedEventIds(s)), buffer |-> buffer, name |-> name,
                time |-> time, duration |-> duration]
  IN RenderTracks([s EXCEPT !.tracks[Max(ref, 0) + 1].events = Append(@, event)])

\* track.events.push({ buffer, time, name, volume: 0.8, duration }) on the
\* track object the handler holds (at position ref, or no longer listed),
\* then renderTracks()
PushEvent(s, ref, buffer, name, time, duration) ==
  LET event == [id |-> Fresh(UsedEventIds(s)), buffer |-> buffer, name |-> name,
                time |-> time, duration |-> duration]
  IN RenderTracks(IF ref < 0 THEN s ELSE [s EXCEPT !.tracks[ref + 1].events = Append(@, event)])

\* the time the resumed drop handler computes: the rectangle of an element
\* that left the document is all zeros, and x / 0 is Infinity
DropTime(p, totalDuration) ==
  IF p.detached THEN Infinity ELSE ScaleToTimeline(p.at, totalDuration)

\* endDrag(e) as if it did not splice the event out of its track
EndDragKeepsSource(s, trackIndex, eventIndex, targetTrackIndex, newTime) ==
  LET event == [At(At(s.tracks, trackIndex).events, eventIndex) EXCEPT !.time = MathMax(0, newTime)]
      s1 == [s EXCEPT !.tracks[trackIndex + 1].events[eventIndex + 1] = event]
  IN RenderTracks(IF targetTrackIndex # trackIndex
                  THEN [s1 EXCEPT !.tracks[targetTrackIndex + 1].events = Append(@, event)]
                  ELSE s1)

\* endDrag(e) over a track element: targetTrackIndex, newTime from the pointer
EndDragOnTrack(s, trackIndex, eventIndex, targetTrackIndex, newTime) ==
  LET event == [At(At(s.tracks, trackIndex).events, eventIndex) EXCEPT !.time = MathMax(0, newTime)]
      s1 == [s EXCEPT !.tracks[trackIndex + 1].events[eventIndex + 1] = event]
  IN RenderTracks(IF targetTrackIndex # trackIndex
                  THEN [s1 EXCEPT !.tracks[targetTrackIndex + 1].events = Append(@, event),
                                  !.tracks[trackIndex + 1].events = Splice1(@, eventIndex)]
                  ELSE s1)

\* tracks[trackIndex].events[eventIndex] is an event (else endDrag throws a TypeError)
Resolves(s, trackIndex, eventIndex) ==
  /\ trackIndex \in Indices(s.tracks)
  /\ eventIndex \in Indices(At(s.tracks, trackIndex).events)

----------------------------------------------------------------------------
(* Initial state: after init() *)

Init ==
  /\ tracks = <<NewTrack>>
  /\ trackPlayStates = <<FALSE>>
  /\ trackAudioSources = << <<>> >>
  /\ isPlaying = FALSE
  /\ audioSources = <<>>
  /\ selectedTrackIndex = 0
  /\ bpm = BaseTempo
  /\ audioCtx = FALSE
  /\ unreferenced = <<>>
  /\ timers = EmptyBag
  /\ drag = NoDrag
  /\ pending = <<>>
  /\ last = Ran("init", -1, -1, TRUE)
  /\ rendered = NoBuffer
  /\ wav = <<>>

----------------------------------------------------------------------------
(* Actions: one per handler *)

\* #add-track click, key 't'
AddTrack ==
  /\ Len(tracks) < MaxTracks
  /\ Commit(CreateTrack(State))
  /\ last' = Ran("createTrack", Len(tracks), -1, TRUE)
  /\ UNCHANGED <<drag, rendered, wav>>

\* .delete-track click on track index
ClickDeleteTrack(index) ==
  /\ index \in Indices(tracks)
  /\ Commit(DeleteTrack(State, index))
  /\ last' = Ran("deleteTrack", index, selectedTrackIndex, Len(tracks) > 1)
  /\ UNCHANGED <<drag, rendered, wav>>

\* key Delete / Backspace
KeyDelete ==
  /\ Commit(IF selectedTrackIndex >= 0 THEN DeleteTrack(State, selectedTrackIndex) ELSE State)
  /\ last' = Ran("deleteTrack", selectedTrackIndex, selectedTrackIndex,
                 selectedTrackIndex >= 0 /\ Len(tracks) > 1)
  /\ UNCHANGED <<drag, rendered, wav>>

\* .delete-sample click
ClickDeleteSample(trackIndex, eventIndex) ==
  /\ trackIndex \in Indices(tracks)
  /\ eventIndex \in Indices(At(tracks, trackIndex).events)
  /\ Commit(DeleteSampleEvent(State, trackIndex, eventIndex))
  /\ last' = Ran("deleteSampleEvent", trackIndex, eventIndex, TRUE)
  /\ UNCHANGED <<drag, rendered, wav>>

\* click on a track element
ClickTrack(trackIndex) ==
  /\ trackIndex \in Indices(tracks)
  /\ Commit(RenderTracks([State EXCEPT !.selectedTrackIndex = trackIndex]))
  /\ last' = Ran("select", trackIndex, -1, TRUE)
  /\ UNCHANGED <<drag, rendered, wav>>

\* .loop-toggle click; the click then bubbles to the track element
ClickLoop(trackIndex) ==
  /\ trackIndex \in Indices(tracks)
  /\ Commit(RenderTracks([State EXCEPT !.tracks[trackIndex + 1].loop = ~@,
                                       !.selectedTrackIndex = trackIndex]))
  /\ last' = Ran("loop", trackIndex, -1, TRUE)
  /\ UNCHANGED <<drag, rendered, wav>>

\* .mute-toggle click; the click then bubbles to the track element
ClickMute(trackIndex) ==
  /\ trackIndex \in Indices(tracks)
  /\ Commit(RenderTracks([State EXCEPT !.tracks[trackIndex + 1].muted = ~@,
                                       !.selectedTrackIndex = trackIndex]))
  /\ last' = Ran("mute", trackIndex, -1, TRUE)
  /\ UNCHANGED <<drag, rendered, wav>>

\* key ArrowUp
KeyArrowUp ==
  /\ Commit(RenderTracks([State EXCEPT !.selectedTrackIndex = Max(0, @ - 1)]))
  /\ last' = Ran("arrowUp", -1, -1, TRUE)
  /\ UNCHANGED <<drag, rendered, wav>>

\* key ArrowDown
KeyArrowDown ==
  /\ Commit(RenderTracks([State EXCEPT !.selectedTrackIndex = Min(Len(tracks) - 1, @ + 1)]))
  /\ last' = Ran("arrowDown", -1, -1, TRUE)
  /\ UNCHANGED <<drag, rendered, wav>>

\* key ArrowLeft
KeyArrowLeft ==
  /\ Commit([State EXCEPT !.bpm = Max(MinTempo, @ - TempoStep)])
  /\ last' = Ran("arrowLeft", bpm, -1, TRUE)
  /\ UNCHANGED <<drag, rendered, wav>>

\* key ArrowRight
KeyArrowRight ==
  /\ Commit([State EXCEPT !.bpm = Min(MaxTempo, @ + TempoStep)])
  /\ last' = Ran("arrowRight", bpm, -1, TRUE)
  /\ UNCHANGED <<drag, rendered, wav>>

\* input on #bpm-slider: bpm = parseInt(e.target.value)
BpmInput(value) ==
  /\ Commit([State EXCEPT !.bpm = value])
  /\ last' = Ran("bpmInput", value, -1, TRUE)
  /\ UNCHANGED <<drag, rendered, wav>>

\* drop of an instrument on a track element, up to `await loadSample(name)`;
\* at: where on the track the pointer is
Drop(trackIndex, name, at) ==
  /\ trackIndex \in Indices(tracks)
  /\ at <= GetTotalDuration
  /\ CountEvents(tracks) + Len(pending) < MaxEvents
  /\ Len(pending) < MaxPending
  /\ pending' = Append(pending, [tr |-> trackIndex, name |-> name, at |-> at, detached |-> FALSE])
  /\ audioCtx' = TRUE
  /\ last' = Ran("drop", trackIndex, -1, TRUE)
  /\ UNCHANGED <<tracks, selectedTrackIndex, bpm, playVars, drag, rendered, wav>>

\* the drop handler resumes; outcome: how the external load went
\* (when the promise of loadSample is rejected the handler throws at its await)
DropResumes(k, outcome) ==
  /\ k \in 1 .. Len(pending)
  /\ LET resumed == [State EXCEPT !.pending = RemoveAt(@, k - 1)]
         loaded == LoadSample(State, pending[k].name, outcome)
     IN /\ Commit(IF loaded.state = "fulfilled"
                  THEN PushEvent(resumed, pending[k].tr, loaded.buffer, pending[k].name,
                                 DropTime(pending[k], GetTotalDuration),
                                 SampleDuration(pending[k].name))
                  ELSE resumed)
        /\ last' = [Ran("dropResumes", pending[k].tr, -1, loaded.state = "fulfilled")
                      EXCEPT !.load = outcome]
  /\ UNCHANGED <<drag, rendered, wav>>

\* mediaRecorder.onstop, after the clip is decoded
RecordingDecoded(duration) ==
  /\ CountEvents(tracks) + Len(pending) < MaxEvents
  /\ Commit(IF selectedTrackIndex >= 0
            THEN PushEvent([State EXCEPT !.audioCtx = TRUE], selectedTrackIndex,
                           Fresh(UsedBuffers(State)), "recorded", 0, duration)
            ELSE [State EXCEPT !.audioCtx = TRUE])
  /\ last' = Ran("recorded", selectedTrackIndex, -1, selectedTrackIndex >= 0)
  /\ UNCHANGED <<drag, rendered, wav>>

\* startDrag(e) on the element of event eventIndex of track trackIndex
StartDrag(trackIndex, eventIndex) ==
  /\ ~drag.isDragging
  /\ trackIndex \in Indices(tracks)
  /\ eventIndex \in Indices(At(tracks, trackIndex).events)
  /\ drag' = [isDragging |-> TRUE, trackIndex |-> trackIndex, eventIndex |-> eventIndex]
  /\ last' = Ran("startDrag", trackIndex, eventIndex, TRUE)
  /\ UNCHANGED <<tracks, selectedTrackIndex, bpm, audioCtx, playVars, pending, rendered, wav>>

\* endDrag(e) with the pointer over the track element targetTrackIndex, at
\* the place `at` of it
EndDrag(targetTrackIndex, at) ==
  /\ drag.isDragging
  /\ targetTrackIndex \in Indices(tracks)
  /\ at <= GetTotalDuration
  /\ drag' = NoDrag
  /\ Commit(IF Resolves(State, drag.trackIndex, drag.eventIndex)
            THEN EndDragOnTrack(State, drag.trackIndex, drag.eventIndex, targetTrackIndex,
                                ScaleToTimeline(at, GetTotalDuration))
            ELSE State)
  /\ last' = Ran("endDrag", drag.trackIndex, targetTrackIndex,
                 Resolves(State, drag.trackIndex, drag.eventIndex))
  /\ UNCHANGED <<rendered, wav>>

\* endDrag(e) with the pointer over no track: the element goes back
EndDragOutside ==
  /\ drag.isDragging
  /\ drag' = NoDrag
  /\ last' = Ran("endDragOutside", drag.trackIndex, -1, TRUE)
  /\ UNCHANGED <<tracks, selectedTrackIndex, bpm, audioCtx, playVars, pending, rendered, wav>>

\* #play-all click
ClickPlayAll ==
  /\ BagCardinality(PlayAll(State).timers) <= MaxTimers
  /\ Commit(PlayAll(State))
  /\ last' = Ran("playAll", -1, -1, ~isPlaying)
  /\ UNCHANGED <<drag, rendered, wav>>

\* how many track scopes are Playing
PlayingTracks == Cardinality({i \in Indices(trackPlayStates) : At(trackPlayStates, i)})

\* #stop-all click; the history keeps how many track scopes were Playing and
\* whether the full mix was
ClickStopAll ==
  /\ Commit(StopAll(State))
  /\ last' = Ran("stopAll", PlayingTracks, -1, isPlaying)
  /\ UNCHANGED <<drag, rendered, wav>>

\* key Space
KeySpace ==
  /\ BagCardinality(PlayAll(State).timers) <= MaxTimers
  /\ Commit(IF isPlaying THEN StopAll(State) ELSE PlayAll(State))
  /\ last' = IF isPlaying THEN Ran("stopAll", PlayingTracks, -1, TRUE) ELSE Ran("playAll", -1, -1, TRUE)
  /\ UNCHANGED <<drag, rendered, wav>>

\* #clear-all click, confirmed
ClickClearAll ==
  /\ Commit(ClearAll(State))
  /\ last' = Ran("clearAll", -1, -1, TRUE)
  /\ UNCHANGED <<drag, rendered, wav>>

\* #download-song click, key 's'; the history keeps how many source nodes the
\* offline context was given
ClickDownload ==
  /\ Commit(Downloaded(State))
  /\ last' = Ran("downloadSong", Len(DownloadSong(State)), -1, audioCtx)
  /\ UNCHANGED <<drag, rendered, wav>>

\* .play-track click on track trackIndex
ClickPlayTrack(trackIndex) ==
  /\ trackIndex \in Indices(tracks)
  /\ BagCardinality(PlayTrack(State, trackIndex).timers) <= MaxTimers
  /\ Commit(PlayTrack(State, trackIndex))
  /\ last' = Ran("playTrack", trackIndex, -1, ~Truthy(trackPlayStates, trackIndex))
  /\ UNCHANGED <<drag, rendered, wav>>

\* the auto-stop timer of a playAll fires
MixTimerFires ==
  \E timer \in BagToSet(timers) :
    /\ timer.scope = "mix"
    /\ Commit(MixTimerFired([State EXCEPT !.timers = @ (-) SetToBag({timer})]))
    /\ last' = Fired("mixTimer", timer, isPlaying /\ ~AnyLoop(tracks))
    /\ UNCHANGED <<drag, rendered, wav>>

\* the auto-stop timer of a playTrack(trackIndex) fires
TrackTimerFires(trackIndex) ==
  \E timer \in BagToSet(timers) :
    /\ timer.scope = "track" /\ timer.index = trackIndex
    /\ Commit(TrackTimerFired([State EXCEPT !.timers = @ (-) SetToBag({timer})], trackIndex))
    /\ last' = Fired("trackTimer", timer, Truthy(trackPlayStates, trackIndex))
    /\ UNCHANGED <<drag, rendered, wav>>

\* the 50 ms position sampler of a running playAll
SamplerTick(atEnd) ==
  /\ isPlaying
  /\ Commit(UpdatePlaybackPosition(State, atEnd))
  /\ last' = Ran("updatePlaybackPosition", IF atEnd THEN 1 ELSE 0, -1, atEnd /\ ~AnyLoop(tracks))
  /\ UNCHANGED <<drag, rendered, wav>>

Next ==
  \/ AddTrack
  \/ \E index \in 0 .. (MaxTracks - 1) : ClickDeleteTrack(index)
  \/ KeyDelete
  \/ \E trackIndex \in 0 .. (MaxTracks - 1), eventIndex \in 0 .. (MaxEvents - 1) :
       ClickDeleteSample(trackIndex, eventIndex)
  \/ \E trackIndex \in 0 .. (MaxTracks - 1) : ClickTrack(trackIndex)
  \/ \E trackIndex \in 0 .. (MaxTracks - 1) : ClickLoop(trackIndex)
  \/ \E trackIndex \in 0 .. (MaxTracks - 1) : ClickMute(trackIndex)
  \/ KeyArrowUp
  \/ KeyArrowDown
  \/ KeyArrowLeft
  \/ KeyArrowRight
  \/ \E value \in TempoInputs : BpmInput(value)
  \/ \E trackIndex \in 0 .. (MaxTracks - 1), name \in Names, at \in PointerTimes :
       Drop(trackIndex, name, at)
  \/ \E k \in 1 .. MaxPending, outcome \in LoadOutcomes : DropResumes(k, outcome)
  \/ \E duration \in RecordedDurations : RecordingDecoded(duration)
  \/ \E trackIndex \in 0 .. (MaxTracks - 1), eventIndex \in 0 .. (MaxEvents - 1) :
       StartDrag(trackIndex, eventIndex)
  \/ \E targetTrackIndex \in 0 .. (MaxTracks - 1), at \in PointerTimes :
       EndDrag(targetTrackIndex, at)
  \/ EndDragOutside
  \/ ClickPlayAll
  \/ ClickStopAll
  \/ KeySpace
  \/ ClickClearAll
  \/ ClickDownload
  \/ \E trackIndex \in 0 .. (MaxTracks - 1) : ClickPlayTrack(trackIndex)
  \/ MixTimerFires
  \/ \E trackIndex \in 0 .. (MaxTracks - 1) : TrackTimerFires(trackIndex)
  \/ \E atEnd \in BOOLEAN : SamplerTick(atEnd)

Spec == Init /\ [][Next]_vars

----------------------------------------------------------------------------
(* Fragments of the program, each the handlers that write one part of the   *)
(* state.  The playback handlers never write tracks[i].events or the        *)
(* selection through anything but ClickLoop / ClickMute; the timeline       *)
(* handlers read the playback state only to stop a track they remove.       *)

\* the handlers that edit the timeline and the selection
NextTimeline ==
  \/ AddTrack
  \/ \E index \in 0 .. (MaxTracks - 1) : ClickDeleteTrack(index)
  \/ KeyDelete
  \/ \E trackIndex \in 0 .. (MaxTracks - 1), eventIndex \in 0 .. (MaxEvents - 1) :
       ClickDeleteSample(trackIndex, eventIndex)
  \/ \E trackIndex \in 0 .. (MaxTracks - 1) : ClickTrack(trackIndex)
  \/ KeyArrowUp
  \/ KeyArrowDown
  \/ \E trackIndex \in 0 .. (MaxTracks - 1), name \in Names, at \in PointerTimes :
       Drop(trackIndex, name, at)
  \/ \E k \in 1 .. MaxPending, outcome \in LoadOutcomes : DropResumes(k, outcome)
  \/ \E duration \in RecordedDurations : RecordingDecoded(duration)
  \/ \E trackIndex \in 0 .. (MaxTracks - 1), eventIndex \in 0 .. (MaxEvents - 1) :
       StartDrag(trackIndex, eventIndex)
  \/ \E targetTrackIndex \in 0 .. (MaxTracks - 1), at \in PointerTimes :
       EndDrag(targetTrackIndex, at)
  \/ EndDragOutside
  \/ ClickClearAll

SpecTimeline == Init /\ [][NextTimeline]_vars

\* a clip is recorded while the timeline holds fewer than MaxPlayingEvents
RecordClip(duration) ==
  /\ CountEvents(tracks) < MaxPlayingEvents
  /\ RecordingDecoded(duration)

\* the handlers that start and stop playback, with the track list changing
\* under them; an event is placed by a recording, at time 0 of the selected track
NextPlayback ==
  \/ AddTrack
  \/ \E index \in 0 .. (MaxTracks - 1) : ClickDeleteTrack(index)
  \/ KeyDelete
  \/ \E trackIndex \in 0 .. (MaxTracks - 1), eventIndex \in 0 .. (MaxEvents - 1) :
       ClickDeleteSample(trackIndex, eventIndex)
  \/ \E trackIndex \in 0 .. (MaxTracks - 1) : ClickLoop(trackIndex)
  \/ \E trackIndex \in 0 .. (MaxTracks - 1) : ClickMute(trackIndex)
  \/ \E duration \in RecordedDurations : RecordClip(duration)
  \/ ClickPlayAll
  \/ ClickStopAll
  \/ KeySpace
  \/ ClickClearAll
  \/ ClickDownload
  \/ \E trackIndex \in 0 .. (MaxTracks - 1) : ClickPlayTrack(trackIndex)
  \/ MixTimerFires
  \/ \E trackIndex \in 0 .. (MaxTracks - 1) : TrackTimerFires(trackIndex)
  \/ \E atEnd \in BOOLEAN : SamplerTick(atEnd)

SpecPlayback == Init /\ [][NextPlayback]_vars

\* deleteTrack(index) called with any number, as a caller of the function
\* may; the buttons and keys above only ever pass the index of a listed track
CallDeleteTrack(index) ==
  /\ Len(DeleteTrack(State, index).unreferenced) <= MaxUnreferenced
  /\ Commit(DeleteTrack(State, index))
  /\ last' = Ran("deleteTrack", index, selectedTrackIndex, Len(tracks) > 1)
  /\ UNCHANGED <<drag, rendered, wav>>

\* the functions of the track list called directly, with tracks playing
NextApi ==
  \/ AddTrack
  \/ \E index \in (0 - MaxTracks) .. MaxTracks : CallDeleteTrack(index)
  \/ \E trackIndex \in 0 .. (MaxTracks - 1) : ClickTrack(trackIndex)
  \/ \E duration \in RecordedDurations : RecordClip(duration)
  \/ \E trackIndex \in 0 .. (MaxTracks - 1) : ClickPlayTrack(trackIndex)
  \/ \E trackIndex \in 0 .. (MaxTracks - 1) : TrackTimerFires(trackIndex)
  \/ ClickPlayAll
  \/ ClickStopAll
  \/ MixTimerFires

SpecApi == Init /\ [][NextApi]_vars

\* the handlers that start playback at a tempo, over events placed by drops
\* (at the pointer's place, or off the ruler when the track element was
\* rebuilt under the drop) and by recordings
NextTempo ==
  \/ AddTrack
  \/ \E trackIndex \in 0 .. (MaxTracks - 1), name \in Names, at \in PointerTimes :
       Drop(trackIndex, name, at)
  \/ \E k \in 1 .. MaxPending, outcome \in LoadOutcomes : DropResumes(k, outcome)
  \/ \E duration \in RecordedDurations : RecordingDecoded(duration)
  \/ \E value \in TempoInputs : BpmInput(value)
  \/ ClickPlayAll
  \/ ClickStopAll
  \/ ClickDownload
  \/ \E trackIndex \in 0 .. (MaxTracks - 1) : ClickPlayTrack(trackIndex)
  \/ MixTimerFires
  \/ \E trackIndex \in 0 .. (MaxTracks - 1) : TrackTimerFires(trackIndex)

SpecTempo == Init /\ [][NextTempo]_vars

\* a session that has some buffer to encode
InitWav ==
  /\ tracks = <<NewTrack>>
  /\ trackPlayStates = <<FALSE>>
  /\ trackAudioSources = << <<>> >>
  /\ isPlaying = FALSE
  /\ audioSources = <<>>
  /\ selectedTrackIndex = 0
  /\ bpm = BaseTempo
  /\ audioCtx = FALSE
  /\ unreferenced = <<>>
  /\ timers = EmptyBag
  /\ drag = NoDrag
  /\ pending = <<>>
  /\ last = Ran("init", -1, -1, TRUE)
  /\ rendered \in Buffers
  /\ wav = <<>>

\* const wav = audioBufferToWav(buffer)
EncodeWav ==
  /\ wav = <<>>
  /\ wav' = AudioBufferToWav(rendered)
  /\ last' = Ran("audioBufferToWav", rendered.length, rendered.numberOfChannels, TRUE)
  /\ UNCHANGED <<tracks, selectedTrackIndex, bpm, audioCtx, playVars, drag, pending, rendered>>

NextWav == EncodeWav

SpecWav == InitWav /\ [][NextWav]_vars

----------------------------------------------------------------------------
(* Properties *)

\* event.time + event.duration of every event of every track
EventEnds == {Plus(e.time, e.duration) : e \in EventsOf(tracks)}

\* C1: in every reachable state getTotalDuration() is at least 10 seconds
\* and at least event.time + event.duration for every event of every track
C1_TotalCoversEveryEvent ==
  /\ GreaterEq(GetTotalDuration, 10 * TicksPerSecond)
  /\ \A end \in EventEnds : GreaterEq(GetTotalDuration, end)

\* C2, as claimed: getTotalDuration() is exactly the larger of 10 seconds and
\* the largest event end, whole number of seconds or not (an end that is NaN
\* left aside)
C2_TotalIsLargestEnd ==
  /\ GetTotalDuration \in {10 * TicksPerSecond} \cup EventEnds
  /\ \A end \in {10 * TicksPerSecond} \cup (EventEnds \ {NaN}) : GetTotalDuration >= end

\* C2, amended: getTotalDuration() is the larger of 10 seconds and the
\* largest event end rounded up to a whole second: it is a whole number of
\* seconds (or Infinity), at least 10, at least every end that is a number,
\* and either 10 or less than one second above some end
C2_TotalIsLargestEndRoundedUp ==
  LET total == GetTotalDuration
      ends == EventEnds \ {NaN}
  IN /\ ~IsNaN(total)
     /\ total >= 10 * TicksPerSecond
     /\ \A end \in ends : total >= end
     /\ total = Infinity \/ total % TicksPerSecond = 0
     /\ \/ total = 10 * TicksPerSecond
        \/ \E end \in ends : IF total = Infinity THEN end = Infinity
                                ELSE end > total - TicksPerSecond

\* C2 witness: the largest end is 10.5 s and the total is 11 s
C2_FractionalEndReached ==
  /\ 105 \in EventEnds
  /\ \A end \in EventEnds : end <= 105
  /\ GetTotalDuration = 110

\* the event endDrag resolves from the indices its closure captured
DraggedEvent == At(At(tracks, drag.trackIndex).events, drag.eventIndex)

\* how many events of the timeline ts carry the identity id
Occurrences(ts, id) ==
  Cardinality({<<j, k>> \in (1 .. Len(ts)) \X (1 .. MaxEvents + 1) :
                 k <= Len(ts[j].events) /\ ts[j].events[k].id = id})

\* C3: endDrag moving the event E from track A onto a different track B takes
\* exactly E out of A and appends exactly E to B in the same step (A one
\* event shorter, B one longer, E once over all tracks); onto A itself it
\* changes the time of E and nothing else
C3_EndDragMovesExactlyOne ==
  [][last'.op = "endDrag" /\ last'.ok =>
       LET A == drag.trackIndex
           B == last'.b
           E == DraggedEvent
           moved == [E EXCEPT !.time = At(At(tracks', B).events, Len(At(tracks', B).events) - 1).time]
       IN IF A # B
          THEN /\ Len(At(tracks', A).events) = Len(At(tracks, A).events) - 1
               /\ Len(At(tracks', B).events) = Len(At(tracks, B).events) + 1
               /\ At(tracks', A).events = RemoveAt(At(tracks, A).events, drag.eventIndex)
               /\ At(tracks', B).events = Append(At(tracks, B).events, moved)
               /\ Occurrences(tracks', E.id) = 1
               /\ \A i \in Indices(tracks) \ {A, B} : At(tracks', i) = At(tracks, i)
               /\ Len(tracks') = Len(tracks)
          ELSE /\ tracks' = [tracks EXCEPT ![A + 1].events[drag.eventIndex + 1].time =
                                             At(At(tracks', A).events, drag.eventIndex).time]
               /\ CountEvents(tracks') = CountEvents(tracks)
  ]_vars

\* C3 witness: an endDrag has just moved an event from one track onto
\* another that held an event already
C3_MovedAcrossTracks ==
  /\ last.op = "endDrag" /\ last.ok
  /\ last.a # last.b
  /\ Len(At(tracks, last.b).events) = 2

\* every variable the handlers of the program write, the drag closure aside
modelVars == <<tracks, selectedTrackIndex, bpm, audioCtx, trackPlayStates, trackAudioSources,
               isPlaying, audioSources, unreferenced, timers, pending>>

\* C4: deleteTrack(index) with exactly one track in the list changes nothing
C4_LastTrackDeletionRefused ==
  [][last'.op = "deleteTrack" /\ Len(tracks) = 1 => UNCHANGED modelVars]_vars

\* C4 witness: deleteTrack has just been refused on the only track, which
\* holds an event and is playing
C4_RefusedWhilePlaying ==
  /\ last.op = "deleteTrack" /\ ~last.ok
  /\ Len(tracks) = 1
  /\ Len(At(tracks, 0).events) > 0
  /\ Truthy(trackPlayStates, 0)

\* C5: the track list holds at least one track in every state
C5_AtLeastOneTrack == Len(tracks) >= 1

\* C5 witness: clearAll has just replaced a list of several tracks by one
\* new track, or deleteTrack has just been refused on the only track
C5_DownToOneTrack ==
  /\ Len(tracks) = 1
  /\ \/ last.op = "clearAll"
     \/ last.op = "deleteTrack" /\ ~last.ok

\* C6: selectedTrackIndex is -1 or the index of a listed track
C6_SelectionInRange ==
  selectedTrackIndex = -1 \/ selectedTrackIndex \in Indices(tracks)

\* C6 witness: deleteTrack has just removed a track while the selection was
\* the last index, and the selection is the new last index
C6_SelectionClamped ==
  /\ last.op = "deleteTrack" /\ last.ok
  /\ last.b >= Len(tracks)
  /\ selectedTrackIndex = Len(tracks) - 1

\* C7: deleteTrack(index) with index < 0 or index >= tracks.length leaves the
\* track list, the play states and the handle lists as they are
C7_InvalidIndexIgnored ==
  [][last'.op = "deleteTrack" /\ (last'.a < 0 \/ last'.a >= Len(tracks)) =>
       UNCHANGED <<tracks, trackPlayStates, trackAudioSources>>]_vars

\* the source nodes in flight, whichever list holds them
InFlightNow == InFlight(State)
\* how many of the source nodes refs play events of a track no longer listed
Orphans(refs) == Cardinality({j \in 1 .. Len(refs) : refs[j].tr = -1})

\* C8: whenever deleteTrack removes a track, every source node started for
\* an event of that track, by playTrack or by a running playAll, has been
\* stopped: none is left in flight for a track that is gone
C8_StoppedBeforeRemoval ==
  [][last'.op = "deleteTrack" /\ last'.ok => Orphans(InFlightNow') <= Orphans(InFlightNow)]_vars

\* the pending callbacks as the program holds them: kind and captured index
Callbacks(armed) == BagOfAll(LAMBDA timer : [scope |-> timer.scope, index |-> timer.index], armed)

\* C9: playTrack(i) on a track with zero events does not start it: the track
\* is Idle afterwards with no source node and no new timer, and if it was
\* Idle before nothing at all has changed
C9_EmptyTrackNotStarted ==
  [][last'.op = "playTrack" /\ Len(At(tracks, last'.a).events) = 0 =>
       /\ ~Truthy(trackPlayStates', last'.a)
       /\ At(trackAudioSources', last'.a) = <<>>
       /\ Callbacks(timers') = Callbacks(timers)
       /\ ~Truthy(trackPlayStates, last'.a) => UNCHANGED modelVars
  ]_vars

\* C9 witness: playTrack has just run on an Idle, unmuted track with zero
\* events, beside a track that holds an event
C9_RefusedOnEmptyTrack ==
  /\ last.op = "playTrack" /\ last.ok
  /\ Len(At(tracks, last.a).events) = 0
  /\ ~At(tracks, last.a).muted
  /\ ~Truthy(trackPlayStates, last.a)
  /\ CountEvents(tracks) > 0

\* C10: playAll with no event in any unmuted track leaves the full mix Idle
C10_EmptyMixStaysIdle ==
  [][/\ last'.op = "playAll"
     /\ ~isPlaying
     /\ \A j \in 1 .. Len(tracks) : tracks[j].muted \/ tracks[j].events = <<>>
     => ~isPlaying']_vars

\* C11: a start request on a scope that is Playing stops it: playTrack(i) on
\* a Playing track leaves that track Idle, and playAll while the full mix is
\* Playing leaves the full mix Idle
C11_SecondStartStops ==
  [][/\ last'.op = "playTrack" /\ Truthy(trackPlayStates, last'.a)
          => ~Truthy(trackPlayStates', last'.a)
     /\ last'.op = "playAll" /\ isPlaying => ~isPlaying'
  ]_vars

\* C12: an auto-stop timer moves a scope from Playing to Idle only as the end
\* of the run that put the scope into Playing: the timer of playAll that
\* stops a full mix holding handles was armed by the latest start of the full mix, and the
\* timer of playTrack that stops a track was armed by the latest start of
\* that track
C12_AutoStopEndsCurrentRun ==
  [][/\ last'.op = "mixTimer" /\ isPlaying /\ audioSources # <<>> /\ ~isPlaying' => last'.b = 0
     /\ last'.op = "trackTimer" =>
          \A i \in Indices(trackPlayStates) :
            Truthy(trackPlayStates, i) /\ ~Truthy(trackPlayStates', i) => last'.b = i
  ]_vars

\* C13: when the auto-stop timer armed by the start of a track fires, that
\* same track is Idle afterwards, wherever it stands in the list by then
C13_TimerReturnsItsTrackToIdle ==
  [][last'.op = "trackTimer" /\ last'.b >= 0 => ~Truthy(trackPlayStates', last'.b)]_vars

\* the full mix holds a source node of a listed track that has loop on
MixSchedulesLoop ==
  \E k \in 1 .. Len(audioSources) :
    audioSources[k].tr >= 0 /\ At(tracks, audioSources[k].tr).loop

\* C14: a full mix that is Playing, with no loop on any track it scheduled an
\* event of, goes Idle when its run ends: when the timer its start armed
\* fires, and when the position sampler finds the end reached
C14_MixEndsWithoutLoop ==
  [][/\ \/ last'.op = "mixTimer" /\ last'.b = 0
        \/ last'.op = "updatePlaybackPosition" /\ last'.a = 1
     /\ isPlaying /\ audioSources # <<>> /\ ~MixSchedulesLoop
     => ~isPlaying']_vars

\* C15: while a track has loop on, the full mix goes from Playing to Idle by
\* stopAll only (the button, the Space key, or clearAll calling it): the timer
\* of playAll and the position sampler leave it Playing
C15_LoopKeepsMixPlaying ==
  [][AnyLoop(tracks) /\ isPlaying /\ ~isPlaying' => last'.op \in {"stopAll", "clearAll"}]_vars

\* C15 witness: with loop on on a track and the timer of the run fired
\* already, the sampler has just found the end reached, and the full mix is
\* still Playing with its handles
C15_PlayingPastTheEnd ==
  /\ last.op = "updatePlaybackPosition" /\ last.a = 1
  /\ AnyLoop(tracks)
  /\ timers = EmptyBag
  /\ isPlaying /\ audioSources # <<>>

\* C16: right after stopAll the full mix is Idle, every track scope is Idle,
\* the handle list of the full mix is empty and so is the handle list of
\* every track
C16_StopAllStopsEverything ==
  last.op = "stopAll" =>
    /\ ~isPlaying
    /\ audioSources = <<>>
    /\ \A i \in Indices(tracks) \cup Indices(trackPlayStates) : ~Truthy(trackPlayStates, i)
    /\ \A i \in Indices(trackAudioSources) : At(trackAudioSources, i) = <<>>

\* C16 witness: stopAll has just run with the full mix Playing, a track scope
\* Playing beside it and loop on on a track
C16_StoppedMixAndTrack ==
  /\ last.op = "stopAll" /\ last.ok /\ last.a >= 1
  /\ AnyLoop(tracks)
  /\ CountEvents(tracks) > 0

C18_MutedTrackSchedulesNothing ==
  [][/\ last'.op = "playAll" /\ ~isPlaying =>
          \A k \in 1 .. Len(audioSources') : ~At(tracks, audioSources'[k].tr).muted
     /\ last'.op = "playTrack" /\ At(tracks, last'.a).muted =>
          /\ ~Truthy(trackPlayStates', last'.a)
          /\ At(trackAudioSources', last'.a) = <<>>
     /\ last'.op = "downloadSong" =>
          /\ \A k \in 1 .. Len(DownloadSong(State)) : ~At(tracks, DownloadSong(State)[k].tr).muted
          /\ last'.a = Len(DownloadSong(State))
  ]_vars

\* C18 witness: downloadSong has just run, with an audioCtx, on a timeline
\* whose only event lies on a muted track, and has started no source
C18_NothingToExport ==
  /\ last.op = "downloadSong" /\ last.ok /\ last.a = 0
  /\ \E i \in Indices(tracks) : At(tracks, i).muted /\ Len(At(tracks, i).events) > 0

\* C19: playTrack(i) leaves the state and the handle list of the full mix as
\* they are, and playAll leaves the state and the handle list of every track
\* scope as they are; the full mix and tracks can be Playing together
C19_ScopesAreIndependent ==
  [][/\ last'.op = "playTrack" => UNCHANGED <<isPlaying, audioSources>>
     /\ last'.op = "playAll" => UNCHANGED <<trackPlayStates, trackAudioSources>>
  ]_vars

\* C19 witness: playAll has just started the full mix while both tracks of
\* the list were Playing, and they still are
C19_MixBesideTwoTracks ==
  /\ last.op = "playAll" /\ last.ok
  /\ isPlaying /\ audioSources # <<>>
  /\ Len(tracks) = 2 /\ PlayingTracks = 2

\* the handles C20 asks of the events of a track: one for every event with a
\* time t that is a number, started t * 120 / tempo after now, at the rate
\* tempo / 120
AtTempo(trackIndex, events, tempo) ==
  LET timed == SelectSeq(events, LAMBDA event : IsFinite(event.time))
  IN SubSeq([k \in 1 .. Len(timed) |->
               [tr |-> trackIndex, when |-> Ratio(timed[k].time * 120, tempo),
                rate |-> Ratio(tempo, 120)]], 1, Len(timed))

RECURSIVE MixAtTempo(_, _, _)
\* the same for the full mix: the events of every track that is not muted
MixAtTempo(ts, trackIndex, tempo) ==
  IF trackIndex >= Len(ts) THEN <<>>
  ELSE (IF At(ts, trackIndex).muted THEN <<>> ELSE AtTempo(trackIndex, At(ts, trackIndex).events, tempo))
       \o MixAtTempo(ts, trackIndex + 1, tempo)

\* C20: playAll and playTrack start, for an event at model time t, a source
\* at now + t * 120 / bpm with playback rate bpm / 120; at 120 bpm the start
\* offset is t and the rate is 1
C20_ScheduledAtTempo ==
  [][/\ last'.op = "playAll" /\ ~isPlaying =>
          /\ audioSources' = MixAtTempo(tracks, 0, bpm)
          /\ bpm = 120 => \A k \in 1 .. Len(audioSources') :
                             audioSources'[k].rate = [num |-> 1, den |-> 1] /\ audioSources'[k].when.den = 1
     /\ last'.op = "playTrack" /\ ~Truthy(trackPlayStates, last'.a) /\ Truthy(trackPlayStates', last'.a) =>
          /\ At(trackAudioSources', last'.a) = AtTempo(last'.a, At(tracks, last'.a).events, bpm)
          /\ bpm = 120 => \A k \in 1 .. Len(At(trackAudioSources', last'.a)) :
                             /\ At(trackAudioSources', last'.a)[k].rate = [num |-> 1, den |-> 1]
                             /\ At(trackAudioSources', last'.a)[k].when.den = 1
  ]_vars

\* C21: downloadSong leaves the timeline and the playback state as they
\* were: the tracks with their events and flags, the selected index, the
\* tempo, the state and the handle list of every scope, the pending timers
\* and drops
C21_DownloadChangesNothing ==
  [][last'.op = "downloadSong" => UNCHANGED modelVars]_vars

\* C21 witness: an export has just gone through at a changed tempo, of a
\* timeline that holds an event, while the full mix and a track are playing
C21_ExportedWhilePlaying ==
  /\ last.op = "downloadSong" /\ last.ok /\ last.a > 0
  /\ bpm # BaseTempo
  /\ isPlaying /\ audioSources # <<>>
  /\ \E i \in Indices(tracks) : Truthy(trackPlayStates, i) /\ At(trackAudioSources, i) # <<>>

\* the number the header declares in the width bytes from byte offset on
Declared(file, offset, width) == Unsigned(SubSeq(file, offset + 1, offset + width))

\* the sizes of the buffers downloadSong renders are written whole: none
\* reaches the width of its field
RenderedSizesFit ==
  \A sampleRate \in SampleRates :
    LET length == RenderedLength(sampleRate)
    IN /\ Unsigned(LittleEndian(DataSize(length, RenderedChannels), 4))
            = length * RenderedChannels * 2
       /\ Unsigned(LittleEndian(ChunkSize(length, RenderedChannels), 4))
            = 36 + length * RenderedChannels * 2
       /\ Unsigned(LittleEndian(ByteRate(sampleRate, RenderedChannels), 4))
            = sampleRate * RenderedChannels * 2
       /\ Unsigned(LittleEndian(BlockAlign(RenderedChannels), 2)) = RenderedChannels * 2

\* C22: the file audioBufferToWav makes of a buffer of L frames, C channels
\* and rate R declares dataSize = L * C * 2 at byte 40, chunkSize = 36 +
\* dataSize at byte 4, blockAlign = C * 2 at byte 32 and byteRate = R * C * 2
\* at byte 28, and is 44 + dataSize bytes long
C22_HeaderDeclaresSizes ==
  /\ RenderedSizesFit
  /\ last.op = "audioBufferToWav" =>
       LET L == rendered.length
           C == rendered.numberOfChannels
           R == rendered.sampleRate
       IN /\ Declared(wav, 40, 4) = L * C * 2
          /\ Declared(wav, 4, 4) = 36 + L * C * 2
          /\ Declared(wav, 32, 2) = C * 2
          /\ Declared(wav, 28, 4) = R * C * 2
          /\ Len(wav) = 44 + L * C * 2

\* C22 witness: a file has been made of two frames of two channels at
\* 44100 Hz, one sample of which lies outside of [-1, 1]
C22_StereoFileEncoded ==
  /\ last.op = "audioBufferToWav"
  /\ rendered.length = 2 /\ rendered.numberOfChannels = 2 /\ rendered.sampleRate = 44100
  /\ rendered.channelData[2][2] = 4
  /\ Len(wav) = 52

\* C23: one audio asset per sample name: the events of the timeline that
\* were dropped with the same instrument name hold the same buffer, the one
\* the first resolution of the name created
C23_OneBufferPerName ==
  \A e1, e2 \in EventsOf(tracks) :
    e1.name \in Names /\ e1.name = e2.name => e1.buffer = e2.buffer

\* C24: whenever the external load fails (fetch throws, the response is not
\* ok, the bytes do not decode) the promise of loadSample is fulfilled with
\* a synthesized buffer, and the drop handler that awaits it goes on
C24_FailedLoadIsSynthesized ==
  last.op = "dropResumes" /\ last.load \in LoadFailures =>
    /\ last.ok
    /\ \A name \in Names : LET loaded == LoadSample(State, name, last.load)
                            IN loaded.state = "fulfilled" /\ loaded.origin = "synthetic"

C26_IdleScopeHoldsNoHandle ==
  /\ \A i \in Indices(tracks) :
       ~Truthy(trackPlayStates, i) /\ i \in Indices(trackAudioSources) =>
         At(trackAudioSources, i) = <<>>
  /\ ~isPlaying => audioSources = <<>>

\* C26 witness: the timer of a track has just returned the track to Idle
\* while the full mix is Idle too, and the track still holds its event
C26_IdleAfterAutoStop ==
  /\ last.op = "trackTimer" /\ last.ok
  /\ last.a \in Indices(tracks) /\ At(tracks, last.a).events # <<>>
  /\ ~Truthy(trackPlayStates, last.a)
  /\ ~isPlaying /\ audioSources = <<>>

\* C27: tracks, trackPlayStates and trackAudioSources have the same length
\* in every state, also after the timer of a track fires for an index whose
\* track was deleted in the meantime
C27_ParallelArraysSameLength ==
  /\ Len(trackPlayStates) = Len(tracks)
  /\ Len(trackAudioSources) = Len(tracks)

\* C27 witness: the timer of a track has just fired with an index that is
\* past the end of the list, its track deleted
C27_TimerFiredPastTheEnd ==
  /\ last.op = "trackTimer"
  /\ last.a >= Len(tracks)
  /\ CountEvents(tracks) > 0

\* the position a track at position j has after the track at position
\* removed has left the list
Shifted(j, removed) == IF j > removed THEN j - 1 ELSE j

\* C28: deleteTrack(i) of a listed track, on a list of two tracks or more,
\* removes track i only: every other track is still listed, one position
\* down when it was after i, with its events and flags, its Playing / Idle
\* state and its handles, and the full mix keeps its state and its handles
C28_DeleteTrackRemovesOnlyThatTrack ==
  [][last'.op = "deleteTrack" /\ Len(tracks) >= 2 /\ last'.a \in Indices(tracks) =>
       /\ Len(tracks') = Len(tracks) - 1
       /\ \A j \in Indices(tracks) \ {last'.a} :
            /\ At(tracks', Shifted(j, last'.a)) = At(tracks, j)
            /\ At(trackPlayStates', Shifted(j, last'.a)) = At(trackPlayStates, j)
            /\ At(trackAudioSources', Shifted(j, last'.a))
                 = RepointAll(At(trackAudioSources, j), last'.a)
       /\ isPlaying' = isPlaying
       /\ audioSources' = RepointAll(audioSources, last'.a)]_vars

\* C28 witness: the first of two tracks has just been deleted while the
\* full mix and the second track, which loops, were playing: the second
\* track is now the first and plays on
C28_DeletedBesidePlayingTrack ==
  /\ last.op = "deleteTrack" /\ last.ok /\ last.a = 0
  /\ Len(tracks) = 1 /\ At(tracks, 0).loop /\ At(tracks, 0).events # <<>>
  /\ Truthy(trackPlayStates, 0) /\ At(trackAudioSources, 0) # <<>>
  /\ isPlaying /\ audioSources # <<>>

====
